---- MODULE Spec2Model ----
(***************************************************************************)
(* mapigator: a places search (fetch_places) followed by a per-place       *)
(* review extraction in a headless browser (scrape_reviews), composed by   *)
(* main.  The provider, the browser and the user are the environment:      *)
(* their answers are chosen nondeterministically at the call that asks.    *)
(*                                                                         *)
(* The specifications share the actions:                                   *)
(*   Spec          the program run from the module-level credential check  *)
(*   SpecFetch     one direct call of fetch_places (as test_fetch_places)  *)
(*   SpecFetchLive the same call, with the fairness of a running program   *)
(*   SpecScrape    one direct call of scrape_reviews                       *)
(***************************************************************************)
EXTENDS Naturals, Sequences, FiniteSets

VARIABLES
    pc,               \* position of the program
    API_KEY,          \* the credential read at import
    args_yes,         \* args.yes
    answer,           \* main: the line the user typed at the prompt
    confirm,          \* main: the normalised confirmation answer
    exitCode,         \* exit status of the process, None while it runs
    displayed,        \* display_places has printed the table
    table,            \* the rows display_places added to the table
    i,                \* main: number of places taken by the for loop
    calls,            \* place ids scrape_reviews was invoked with, in order
    places,           \* fetch_places: the accumulator; main: the result
    next_page_token,  \* fetch_places: the cursor of the last response
    pagetoken,        \* fetch_places: params["pagetoken"], None when unset
    requests,         \* log of the requests sent to the provider
    responses,        \* log of the provider's responses
    waited,           \* seconds slept since the last response arrived
    errors,           \* number of logging.error calls
    place_id,         \* scrape_reviews: its argument
    driver,           \* scrape_reviews: state of this invocation's session
    launched,         \* sessions created so far (webdriver.Chrome)
    quits,            \* sessions terminated so far (driver.quit)
    scrolls,          \* scrape_reviews: scroll commands issued
    review_elements,  \* scrape_reviews: the containers find_elements gave
    idx,              \* scrape_reviews: containers taken by the for loop
    reviews,          \* scrape_reviews: the records; the return value
    error,            \* scrape_reviews: the cause the handler reported
    slept             \* scrape_reviews: seconds slept in this invocation

mainVars   == <<API_KEY, args_yes, answer, confirm, exitCode, displayed, table,
                i, calls>>
fetchVars  == <<places, next_page_token, pagetoken, requests, responses,
                waited, errors>>
scrapeVars == <<place_id, driver, launched, quits, scrolls, review_elements,
                idx, reviews, error, slept>>
vars       == <<pc, mainVars, fetchVars, scrapeVars>>

(***************************************************************************)
(* Bounds of the environment.                                              *)
(***************************************************************************)
\* direct call of fetch_places: pages the provider grants, entries per page
MaxPages == 3
MaxResults == 2
\* the same call under fairness: entries per page
LiveMaxResults == 1
\* direct call of scrape_reviews: review containers on the page
MaxContainers == 2
\* the whole run
MainMaxPages == 2
MainMaxResults == 1
MainMaxContainers == 1

(***************************************************************************)
(* Python values.                                                          *)
(***************************************************************************)
None == "None"

\* truth value of a token: None and the empty string are falsy
Truthy(v) == v \notin {None, ""}

\* dict.get(key), None when the key is absent
Get(d, key) == IF key \in DOMAIN d THEN d[key] ELSE None

\* list.extend that also drops the entries already accumulated
ExtendDedup(acc, more) ==
    acc \o SelectSeq(more, LAMBDA e : \A k \in 1..Len(acc) : acc[k] # e)

\* list.extend
Extend(acc, more) == acc \o more

\* all sequences over S of length at most n
RECURSIVE SeqsUpTo(_, _)
SeqsUpTo(S, n) ==
    IF n = 0 THEN {<<>>}
    ELSE LET shorter == SeqsUpTo(S, n - 1)
         IN  shorter \cup {Append(s, e) : s \in {t \in shorter : Len(t) = n - 1}, e \in S}

(***************************************************************************)
(* The search provider.                                                    *)
(***************************************************************************)
\* a decimal number as it is written in the provider's JSON: the sign, the
\* integer part and the digits after the point
Literal(neg, whole, frac) == [neg |-> neg, whole |-> whole, frac |-> frac]

RECURSIVE DropTrailingZeros(_)
DropTrailingZeros(digits) ==
    IF digits # <<>> /\ digits[Len(digits)] = 0
    THEN DropTrailingZeros(SubSeq(digits, 1, Len(digits) - 1))
    ELSE digits

\* response.json(): the float a literal denotes; literals that differ only in
\* trailing zeros of the fraction denote the same float
ParseFloat(lit) == [lit EXCEPT !.frac = DropTrailingZeros(lit.frac)]

\* place objects of a results array, after response.json()
PlaceRecords ==
    { [name |-> "Test Hospital",
       rating |-> ParseFloat(Literal(FALSE, 4, <<5>>)),
       place_id |-> "test123",
       geometry |-> [location |->
           [lat |-> ParseFloat(Literal(FALSE, 40, <<7, 1, 2, 8>>)),
            lng |-> ParseFloat(Literal(TRUE, 74, <<0, 0, 6, 0>>))]]],
      [place_id |-> "p2"] }

Tokens == {"", "tokA", "tokB"}

\* responses carrying a results array, with or without a cursor
PageResponses(maxResults) ==
    LET rs == SeqsUpTo(PlaceRecords, maxResults)
    IN  {[results |-> r, status |-> "OK"] : r \in rs}
        \cup {[results |-> r, status |-> "OK", next_page_token |-> t] :
                  r \in rs, t \in Tokens}

\* payloads whose status reports a failure and that carry a results array,
\* empty or not, with or without a cursor
FailedWithResults ==
    LET rs == {<<>>} \cup {<<p>> : p \in PlaceRecords}
    IN  {[results |-> r, status |-> "REQUEST_DENIED"] : r \in rs}
        \cup {[results |-> r, status |-> "REQUEST_DENIED", next_page_token |-> "tokA"] :
                  r \in rs}

\* error payloads: no results field; a cursor in them is possible
ErrorResponses ==
    { [status |-> "REQUEST_DENIED"],
      [status |-> "REQUEST_DENIED", next_page_token |-> "tokA"] }

\* what the provider may answer to request number n (it grants maxPages pages)
ProviderResponses(n, maxPages, maxResults) ==
    {d \in PageResponses(maxResults) \cup FailedWithResults \cup ErrorResponses :
        n >= maxPages => ~Truthy(Get(d, "next_page_token"))}

(***************************************************************************)
(* fetch_places                                                            *)
(***************************************************************************)
\* seconds of the delay before a cursor is used
PAGE_DELAY == 2

\* the pagetoken parameter, set once and never refreshed
RequestTokenStale(npt, cur) == IF cur # None THEN cur ELSE IF Truthy(npt) THEN npt ELSE cur

\* lines 57-58: the pagetoken parameter of the request about to be sent
RequestToken(npt, cur) == IF Truthy(npt) THEN npt ELSE cur

\* lines 68-69: the accumulator after a response
Accumulate(acc, data) ==
    IF "results" \in DOMAIN data THEN Extend(acc, data["results"]) ELSE acc

\* the loop gives up after two pages
ContinuesUpToTwoPages(data) ==
    /\ "results" \in DOMAIN data
    /\ Truthy(Get(data, "next_page_token"))
    /\ Len(requests) + 1 < 2

\* the loop goes on only after a response whose status is OK
ContinuesIfStatusOk(data) ==
    /\ "results" \in DOMAIN data
    /\ Truthy(Get(data, "next_page_token"))
    /\ data["status"] = "OK"

\* the loop goes on whenever the response has a cursor
ContinuesOnCursor(data) == Truthy(Get(data, "next_page_token"))

\* lines 68-76: the loop goes on after this response
Continues(data) ==
    /\ "results" \in DOMAIN data
    /\ Truthy(Get(data, "next_page_token"))

\* lines 40-51: the base query and the empty accumulator
FetchEnter ==
    /\ pc = "fetch_enter"
    /\ places' = <<>>
    /\ next_page_token' = None
    /\ pagetoken' = None
    /\ pc' = "fetch_request"
    /\ UNCHANGED <<requests, responses, waited, errors>>
    /\ UNCHANGED <<mainVars, scrapeVars>>

\* lines 57-76: one iteration of the loop, from the request to break or sleep
FetchPage(maxPages, maxResults) ==
    /\ pc = "fetch_request"
    /\ \E data \in ProviderResponses(Len(requests) + 1, maxPages, maxResults) :
          LET sent == RequestToken(next_page_token, pagetoken)
          IN  /\ pagetoken' = sent
              /\ requests' = Append(requests, [pagetoken |-> sent, waited |-> waited])
              /\ responses' = Append(responses, data)
              /\ waited' = 0
              /\ places' = Accumulate(places, data)
              /\ errors' = IF "results" \in DOMAIN data THEN errors ELSE errors + 1
              /\ next_page_token' =
                     IF "results" \in DOMAIN data
                     THEN Get(data, "next_page_token") ELSE next_page_token
              /\ pc' = IF Continues(data) THEN "fetch_sleep" ELSE "fetch_returned"
    /\ UNCHANGED <<mainVars, scrapeVars>>

\* line 60: requests.get or response.json raises; nothing catches it
FetchRequestRaises ==
    /\ pc = "fetch_request"
    /\ LET sent == RequestToken(next_page_token, pagetoken)
       IN  /\ pagetoken' = sent
           /\ requests' = Append(requests, [pagetoken |-> sent, waited |-> waited])
    /\ pc' = "raised"
    /\ UNCHANGED <<places, next_page_token, responses, waited, errors>>
    /\ UNCHANGED <<mainVars, scrapeVars>>

\* line 78: time.sleep(2)
FetchSleep ==
    /\ pc = "fetch_sleep"
    /\ waited' = waited + PAGE_DELAY
    /\ pc' = "fetch_request"
    /\ UNCHANGED <<places, next_page_token, pagetoken, requests, responses, errors>>
    /\ UNCHANGED <<mainVars, scrapeVars>>

(***************************************************************************)
(* The rendered page.                                                      *)
(***************************************************************************)
\* numbers of rating markers a review container may show
MarkerCounts == {0, 1, 5}

\* n elements of class kvMYJc
Markers(n) == [k \in 1..n |-> "kvMYJc"]

\* a review container (class jftiEf): for each class, the texts of the
\* sub-elements of that class, in document order
Containers ==
    { [d4r55 |-> a, kvMYJc |-> Markers(n), wiI7pd |-> t] :
          a \in {<<>>, <<"Alice">>}, n \in MarkerCounts,
          t \in {<<>>, <<"Great place!">>} }

\* find_element finds an element of the class (else NoSuchElementException)
Found(container, class) == container[class] # <<>>

\* find_element(...).text: the text of the first element of the class
TextOf(container, class) == container[class][1]

(***************************************************************************)
(* scrape_reviews                                                          *)
(***************************************************************************)
\* range(10): scroll commands of the load-more step
SCROLLS == 10
\* time.sleep arguments: settle, after the click, after each scroll
SETTLE_DELAY == 5
REVEAL_DELAY == 3
SCROLL_DELAY == 1

\* rating that ignores the markers
RatingFixed(container) == 5

\* line 124: the rating is the number of marker sub-elements
Rating(container) == Len(container["kvMYJc"])

\* lines 127-131: the record of one container
ReviewOf(container) ==
    [author |-> TextOf(container, "d4r55"),
     rating |-> Rating(container),
     text   |-> TextOf(container, "wiI7pd")]

\* a handler that reports the cause and keeps the records parsed so far
ExceptKeepsPartial(cause) ==
    /\ error' = cause
    /\ UNCHANGED reviews
    /\ pc' = "scrape_quit"

\* lines 135-137: the handler reports the cause and empties the result
Except(cause) ==
    /\ error' = cause
    /\ reviews' = <<>>
    /\ pc' = "scrape_quit"

\* lines 89-98: the session is launched, or webdriver.Chrome raises
ScrapeLaunch ==
    /\ pc = "scrape_enter"
    /\ scrolls' = 0
    /\ review_elements' = <<>>
    /\ idx' = 0
    /\ reviews' = <<>>
    /\ error' = None
    /\ slept' = 0
    /\ \/ /\ driver' = "live"
          /\ launched' = launched + 1
          /\ pc' = "scrape_get"
       \/ /\ driver' = None
          /\ launched' = launched
          /\ pc' = "raised"
    /\ UNCHANGED <<place_id, quits>>
    /\ UNCHANGED <<mainVars, fetchVars>>

\* lines 100-102: navigation and the settle wait, outside the try block
ScrapeGet ==
    /\ pc = "scrape_get"
    /\ \/ /\ slept' = slept + SETTLE_DELAY
          /\ pc' = "scrape_reveal"
       \/ /\ slept' = slept
          /\ pc' = "raised"
    /\ UNCHANGED <<place_id, driver, launched, quits, scrolls, review_elements,
                   idx, reviews, error>>
    /\ UNCHANGED <<mainVars, fetchVars>>

\* a reveal step that goes on to the panel although the control is missing
ScrapeRevealIgnoresMissing ==
    /\ pc = "scrape_reveal"
    /\ \/ /\ slept' = slept + REVEAL_DELAY
          /\ pc' = "scrape_panel"
          /\ UNCHANGED <<error, reviews>>
       \/ /\ slept' = slept
          /\ error' = "reveal"
          /\ pc' = "scrape_panel"
          /\ UNCHANGED reviews
    /\ UNCHANGED <<place_id, driver, launched, quits, scrolls, review_elements, idx>>
    /\ UNCHANGED <<mainVars, fetchVars>>

\* lines 106-108: find the reveal control, click it, wait
ScrapeReveal ==
    /\ pc = "scrape_reveal"
    /\ \/ /\ slept' = slept + REVEAL_DELAY
          /\ pc' = "scrape_panel"
          /\ UNCHANGED <<error, reviews>>
       \/ /\ slept' = slept
          /\ Except("reveal")
    /\ UNCHANGED <<place_id, driver, launched, quits, scrolls, review_elements, idx>>
    /\ UNCHANGED <<mainVars, fetchVars>>

\* lines 111-112: find the scrollable panel
ScrapePanel ==
    /\ pc = "scrape_panel"
    /\ \/ /\ pc' = "scrape_scroll"
          /\ UNCHANGED <<error, reviews>>
       \/ Except("panel")
    /\ UNCHANGED <<place_id, driver, launched, quits, scrolls, review_elements,
                   idx, slept>>
    /\ UNCHANGED <<mainVars, fetchVars>>

\* lines 114-116: one scroll command and its pause
ScrapeScroll ==
    /\ pc = "scrape_scroll"
    /\ scrolls < SCROLLS
    /\ \/ /\ scrolls' = scrolls + 1
          /\ slept' = slept + SCROLL_DELAY
          /\ pc' = "scrape_scroll"
          /\ UNCHANGED <<error, reviews>>
       \/ /\ Except("scroll")
          /\ UNCHANGED <<scrolls, slept>>
    /\ UNCHANGED <<place_id, driver, launched, quits, review_elements, idx>>
    /\ UNCHANGED <<mainVars, fetchVars>>

\* lines 119-120: the result starts empty, the containers are enumerated
ScrapeFindReviews(maxContainers) ==
    /\ pc = "scrape_scroll"
    /\ scrolls = SCROLLS
    /\ \/ /\ review_elements' \in SeqsUpTo(Containers, maxContainers)
          /\ reviews' = <<>>
          /\ idx' = 0
          /\ pc' = "scrape_parse"
          /\ UNCHANGED error
       \/ /\ Except("enumerate")
          /\ UNCHANGED <<review_elements, idx>>
    /\ UNCHANGED <<place_id, driver, launched, quits, scrolls, slept>>
    /\ UNCHANGED <<mainVars, fetchVars>>

\* lines 122-131: one iteration of the parse loop
ScrapeParse ==
    /\ pc = "scrape_parse"
    /\ idx < Len(review_elements)
    /\ LET review == review_elements[idx + 1]
       IN  IF Found(review, "d4r55") /\ Found(review, "wiI7pd")
           THEN /\ reviews' = Append(reviews, ReviewOf(review))
                /\ pc' = "scrape_parse"
                /\ UNCHANGED error
           ELSE Except("parse")
    /\ idx' = idx + 1
    /\ UNCHANGED <<place_id, driver, launched, quits, scrolls, review_elements, slept>>
    /\ UNCHANGED <<mainVars, fetchVars>>

\* line 133: the loop is over
ScrapeParsed ==
    /\ pc = "scrape_parse"
    /\ idx = Len(review_elements)
    /\ pc' = "scrape_quit"
    /\ UNCHANGED scrapeVars
    /\ UNCHANGED <<mainVars, fetchVars>>

\* a return that leaves the session running
ScrapeQuitForgotten ==
    /\ pc = "scrape_quit"
    /\ pc' = "scrape_returned"
    /\ UNCHANGED scrapeVars
    /\ UNCHANGED <<mainVars, fetchVars>>

\* lines 139-140: the session is terminated and reviews is returned
ScrapeQuit ==
    /\ pc = "scrape_quit"
    /\ driver' = "quit"
    /\ quits' = quits + 1
    /\ pc' = "scrape_returned"
    /\ UNCHANGED <<place_id, launched, scrolls, review_elements, idx, reviews,
                   error, slept>>
    /\ UNCHANGED <<mainVars, fetchVars>>

(***************************************************************************)
(* display_places.  The text of a number is a sequence of characters.      *)
(***************************************************************************)
DigitChar(d) == <<"0", "1", "2", "3", "4", "5", "6", "7", "8", "9">>[d + 1]

\* the decimal digits of a natural number
RECURSIVE NatChars(_)
NatChars(n) ==
    IF n < 10 THEN <<DigitChar(n)>>
    ELSE NatChars(n \div 10) \o <<DigitChar(n % 10)>>

\* str(float): the shortest decimal text that denotes the float
FloatStr(f) ==
    (IF f.neg THEN <<"-">> ELSE <<>>)
        \o NatChars(f.whole) \o <<".">>
        \o (IF f.frac = <<>> THEN <<"0">>
            ELSE [k \in 1..Len(f.frac) |-> DigitChar(f.frac[k])])

\* str("N/A")
NotAvailable == <<"N", "/", "A">>

\* lines 153-163: the cells of the row of one place
DisplayRow(place) ==
    LET geometry == IF "geometry" \in DOMAIN place THEN place["geometry"] ELSE <<>>
        location == IF "location" \in DOMAIN geometry THEN geometry["location"] ELSE <<>>
    IN  << IF "name" \in DOMAIN place THEN place["name"] ELSE "N/A",
           IF "rating" \in DOMAIN place THEN FloatStr(place["rating"]) ELSE NotAvailable,
           place["place_id"],
           IF "lat" \in DOMAIN location THEN FloatStr(location["lat"]) ELSE NotAvailable,
           IF "lng" \in DOMAIN location THEN FloatStr(location["lng"]) ELSE NotAvailable >>

\* lines 152-165: one row per place, in the order of the list
DisplayPlaces(ps) == [k \in 1..Len(ps) |-> DisplayRow(ps[k])]

(***************************************************************************)
(* The user at the prompt.  Strings that are transformed are sequences of  *)
(* characters.                                                             *)
(***************************************************************************)
Answers ==
    { <<"y">>, <<"Y">>, <<" ", "Y", " ">>, <<"n">>, <<>>, <<"y", "e", "s">>,
      <<" ", "y", "\n">> }

Whitespace == {" ", "\t", "\n", "\r"}

\* str.strip
RECURSIVE Strip(_)
Strip(str) ==
    IF str = <<>> THEN str
    ELSE IF Head(str) \in Whitespace THEN Strip(Tail(str))
    ELSE IF str[Len(str)] \in Whitespace THEN Strip(SubSeq(str, 1, Len(str) - 1))
    ELSE str

LowerChar(c) ==
    CASE c = "Y" -> "y"
      [] c = "N" -> "n"
      [] c = "E" -> "e"
      [] c = "S" -> "s"
      [] OTHER -> c

\* a conversion that leaves capitals as they are
LowerKeepsCase(str) == str

\* str.lower
Lower(str) == [k \in 1..Len(str) |-> LowerChar(str[k])]

(***************************************************************************)
(* The module body and main                                                *)
(***************************************************************************)
\* lines 27-32: without a credential the import exits with status 1;
\* lines 169-180: otherwise main parses the arguments and calls fetch_places
CheckCredential ==
    /\ pc = "import"
    /\ IF Truthy(API_KEY)
       THEN /\ pc' = "fetch_enter"
            /\ UNCHANGED exitCode
       ELSE /\ pc' = "exited"
            /\ exitCode' = 1
    /\ UNCHANGED <<API_KEY, args_yes, confirm, answer, displayed, table, i, calls>>
    /\ UNCHANGED <<fetchVars, scrapeVars>>

\* an empty result that is treated as a normal end
MainAfterFetchExitsZero ==
    /\ pc = "fetch_returned"
    /\ IF places = <<>>
       THEN /\ pc' = "exited"
            /\ exitCode' = 0
            /\ UNCHANGED <<displayed, table>>
       ELSE /\ pc' = "main_confirm"
            /\ displayed' = TRUE
            /\ table' = DisplayPlaces(places)
            /\ UNCHANGED exitCode
    /\ UNCHANGED <<API_KEY, args_yes, confirm, answer, i, calls>>
    /\ UNCHANGED <<fetchVars, scrapeVars>>

\* lines 180-187: fetch_places returned; no place ends the run with status 1,
\* else the table is shown (and the locals of fetch_places and the logs of
\* its call, which nothing reads again, are dropped)
MainAfterFetch ==
    /\ pc = "fetch_returned"
    /\ IF places = <<>>
       THEN /\ pc' = "exited"
            /\ exitCode' = 1
            /\ UNCHANGED <<displayed, table, next_page_token, pagetoken, requests,
                           responses, waited>>
       ELSE /\ pc' = "main_confirm"
            /\ displayed' = TRUE
            /\ table' = DisplayPlaces(places)
            /\ next_page_token' = None
            /\ pagetoken' = None
            /\ requests' = <<>>
            /\ responses' = <<>>
            /\ waited' = 0
            /\ UNCHANGED exitCode
    /\ UNCHANGED <<API_KEY, args_yes, confirm, answer, i, calls, places, errors>>
    /\ UNCHANGED scrapeVars

\* lines 190-197: the confirmation, skipped with --yes
MainConfirm ==
    /\ pc = "main_confirm"
    /\ IF args_yes
       THEN /\ pc' = "main_loop"
            /\ UNCHANGED <<confirm, answer, exitCode>>
       ELSE \E typed \in Answers :
                /\ answer' = typed
                /\ confirm' = Lower(Strip(typed))
                /\ IF confirm' # <<"y">>
                   THEN /\ pc' = "exited"
                        /\ exitCode' = 0
                   ELSE /\ pc' = "main_loop"
                        /\ UNCHANGED exitCode
    /\ UNCHANGED <<API_KEY, args_yes, displayed, table, i, calls>>
    /\ UNCHANGED <<fetchVars, scrapeVars>>

\* lines 199-204: the loop takes the next place and calls scrape_reviews
MainNextPlace ==
    /\ pc = "main_loop"
    /\ i < Len(places)
    /\ i' = i + 1
    /\ place_id' = places[i + 1]["place_id"]
    /\ calls' = Append(calls, place_id')
    /\ pc' = "scrape_enter"
    /\ UNCHANGED <<API_KEY, args_yes, confirm, answer, exitCode, displayed, table>>
    /\ UNCHANGED fetchVars
    /\ UNCHANGED <<driver, launched, quits, scrolls, review_elements, idx,
                   reviews, error, slept>>

\* lines 204-207: scrape_reviews returned, main binds and prints its reviews
\* (the other locals of scrape_reviews are gone with its frame)
MainPrintReviews ==
    /\ pc = "scrape_returned"
    /\ pc' = "main_loop"
    /\ driver' = None
    /\ scrolls' = 0
    /\ review_elements' = <<>>
    /\ idx' = 0
    /\ error' = None
    /\ slept' = 0
    /\ UNCHANGED <<place_id, launched, quits, reviews>>
    /\ UNCHANGED <<mainVars, fetchVars>>

\* line 209: the loop is over, main returns and the process ends with status 0
MainDone ==
    /\ pc = "main_loop"
    /\ i = Len(places)
    /\ pc' = "exited"
    /\ exitCode' = 0
    /\ UNCHANGED <<API_KEY, args_yes, confirm, answer, displayed, table, i, calls>>
    /\ UNCHANGED <<fetchVars, scrapeVars>>

\* lines 212-213: an exception nothing caught leaves main; the interpreter
\* prints the traceback and the process ends with status 1
MainUncaught ==
    /\ pc = "raised"
    /\ pc' = "exited"
    /\ exitCode' = 1
    /\ UNCHANGED <<API_KEY, args_yes, confirm, answer, displayed, table, i, calls>>
    /\ UNCHANGED <<fetchVars, scrapeVars>>

(***************************************************************************)
(* Specifications                                                          *)
(***************************************************************************)
\* nothing was called yet
InitLocals ==
    /\ answer = <<>>
    /\ confirm = <<>>
    /\ exitCode = None
    /\ displayed = FALSE
    /\ table = <<>>
    /\ i = 0
    /\ calls = <<>>
    /\ places = <<>>
    /\ next_page_token = None
    /\ pagetoken = None
    /\ requests = <<>>
    /\ responses = <<>>
    /\ waited = 0
    /\ errors = 0
    /\ driver = None
    /\ launched = 0
    /\ quits = 0
    /\ scrolls = 0
    /\ review_elements = <<>>
    /\ idx = 0
    /\ reviews = <<>>
    /\ error = None
    /\ slept = 0

\* the program is started: the environment may lack the credential
Init ==
    /\ InitLocals
    /\ pc = "import"
    /\ API_KEY \in {None, "", "key"}
    /\ args_yes \in BOOLEAN
    /\ place_id = None

Next ==
    \/ CheckCredential
    \/ FetchEnter
    \/ FetchPage(MainMaxPages, MainMaxResults)
    \/ FetchRequestRaises
    \/ FetchSleep
    \/ MainAfterFetch
    \/ MainConfirm
    \/ MainNextPlace
    \/ ScrapeLaunch
    \/ ScrapeGet
    \/ ScrapeReveal
    \/ ScrapePanel
    \/ ScrapeScroll
    \/ ScrapeFindReviews(MainMaxContainers)
    \/ ScrapeParse
    \/ ScrapeParsed
    \/ ScrapeQuit
    \/ MainPrintReviews
    \/ MainDone
    \/ MainUncaught

Spec == Init /\ [][Next]_vars

\* a direct call fetch_places(lat, lng, radius, types, verbose)
InitFetch ==
    /\ InitLocals
    /\ pc = "fetch_enter"
    /\ API_KEY = "key"
    /\ args_yes = FALSE
    /\ place_id = None

NextFetch ==
    \/ FetchEnter
    \/ FetchPage(MaxPages, MaxResults)
    \/ FetchRequestRaises
    \/ FetchSleep

SpecFetch == InitFetch /\ [][NextFetch]_vars

NextFetchLive ==
    \/ FetchEnter
    \/ FetchPage(MaxPages, LiveMaxResults)
    \/ FetchRequestRaises
    \/ FetchSleep

\* the interpreter runs the next statement: a sequential program does not stall
SpecFetchLive == InitFetch /\ [][NextFetchLive]_vars /\ WF_vars(NextFetchLive)

\* a direct call scrape_reviews(place_id)
InitScrape ==
    /\ InitLocals
    /\ pc = "scrape_enter"
    /\ API_KEY = "key"
    /\ args_yes = FALSE
    /\ place_id \in {r.place_id : r \in PlaceRecords}

NextScrape ==
    \/ ScrapeLaunch
    \/ ScrapeGet
    \/ ScrapeReveal
    \/ ScrapePanel
    \/ ScrapeScroll
    \/ ScrapeFindReviews(MaxContainers)
    \/ ScrapeParse
    \/ ScrapeParsed
    \/ ScrapeQuit

SpecScrape == InitScrape /\ [][NextScrape]_vars

(***************************************************************************)
(* Properties of scrape_reviews                                            *)
(***************************************************************************)
\* the invocation is over: it returned or an exception left it
ScrapeOver == pc \in {"scrape_returned", "raised"}

\* both sub-elements the parse step reads are there
WellFormed(container) == Found(container, "d4r55") /\ Found(container, "wiI7pd")

\* C1: a session that was created is terminated exactly once before the
\* invocation ends, on every exit path.
C1_SessionAlwaysQuit ==
    /\ quits <= launched
    /\ (ScrapeOver /\ driver # None) => (driver = "quit" /\ quits = launched)

\* C2: scrape_reviews never raises to its caller: every invocation ends by
\* returning, and a failed one returns the empty list with its cause reported.
C2_NeverRaises ==
    ScrapeOver =>
        /\ pc = "scrape_returned"
        /\ error # None => reviews = <<>>

\* C6: a container with a missing author or body does not cost the records of
\* the well-formed containers of the page: they are still returned.
C6_OtherReviewsKept ==
    (pc = "scrape_returned" /\ error = "parse") =>
        \A k \in 1..Len(review_elements) :
            WellFormed(review_elements[k]) =>
                \E j \in 1..Len(reviews) : reviews[j] = ReviewOf(review_elements[k])

\* C7: when the reveal control is not found the invocation goes straight to
\* teardown: no scroll, no container enumerated or parsed, an empty result,
\* and it returns instead of raising.
C7_NoRevealNoWork ==
    error = "reveal" =>
        /\ pc \in {"scrape_quit", "scrape_returned"}
        /\ scrolls = 0
        /\ idx = 0
        /\ review_elements = <<>>
        /\ reviews = <<>>
        /\ slept = SETTLE_DELAY

\* the invocation returned after the reveal control was not found
C7_Witness ==
    /\ pc = "scrape_returned"
    /\ error = "reveal"
    /\ driver = "quit"
    /\ reviews = <<>>

\* the containers were enumerated (line 120 has run)
Enumerated ==
    \/ pc = "scrape_parse"
    \/ pc \in {"scrape_quit", "scrape_returned"} /\ error \in {None, "parse"}

\* the reveal step is behind
Revealed ==
    \/ pc \in {"scrape_panel", "scrape_scroll", "scrape_parse"}
    \/ pc \in {"scrape_quit", "scrape_returned"} /\ error # "reveal"

\* C15: after the reveal, 10 scroll commands are issued, each followed by its
\* pause, before the containers are enumerated; a failure of any step from
\* reveal to parse gives the empty list, also after some reviews were parsed.
C15_TenScrollsThenParse ==
    /\ scrolls <= 10
    /\ Revealed => slept = SETTLE_DELAY + REVEAL_DELAY + scrolls * SCROLL_DELAY
    /\ Enumerated => scrolls = 10
    /\ ~Enumerated => (review_elements = <<>> /\ idx = 0)
    /\ (pc \in {"scrape_quit", "scrape_returned"} /\ error # None) => reviews = <<>>

\* the first container was parsed, the second one failed: nothing is returned
C15_Witness ==
    /\ pc = "scrape_returned"
    /\ error = "parse"
    /\ idx = 2
    /\ WellFormed(review_elements[1])
    /\ scrolls = 10
    /\ reviews = <<>>

\* the parse step was reached: no earlier step failed
ParseReached == error \in {None, "parse"}

\* C9: with the reveal control present and n well-formed containers, the
\* result is n records in container order, each with the container's author
\* and body and with rating equal to its number of markers.
C9_OneRecordPerContainer ==
    (/\ pc = "scrape_returned"
     /\ ParseReached
     /\ \A k \in 1..Len(review_elements) : WellFormed(review_elements[k]))
        => /\ error = None
           /\ Len(reviews) = Len(review_elements)
           /\ \A k \in 1..Len(review_elements) :
                  /\ reviews[k].author = review_elements[k]["d4r55"][1]
                  /\ reviews[k].text = review_elements[k]["wiI7pd"][1]
                  /\ reviews[k].rating = Len(review_elements[k]["kvMYJc"])

\* two well-formed containers, with five markers and with none
C9_Witness ==
    /\ pc = "scrape_returned"
    /\ error = None
    /\ Len(review_elements) = 2
    /\ Len(reviews) = 2
    /\ reviews[1].rating = 5
    /\ reviews[2].rating = 0

(***************************************************************************)
(* Properties of fetch_places                                              *)
(***************************************************************************)
HasResults(d) == "results" \in DOMAIN d

\* the results arrays of the first n responses, one after the other
RECURSIVE PagesConcat(_, _)
PagesConcat(rs, n) ==
    IF n = 0 THEN <<>> ELSE PagesConcat(rs, n - 1) \o rs[n]["results"]

\* C3: when every response carried a results array, fetch_places returns the
\* results of all pages concatenated in arrival order, repeated entries kept.
C3_AllPagesConcatenated ==
    (pc = "fetch_returned" /\ \A k \in 1..Len(responses) : HasResults(responses[k]))
        => places = PagesConcat(responses, Len(responses))

\* two pages arrived and the result holds the same place twice
C3_Witness ==
    /\ pc = "fetch_returned"
    /\ Len(responses) >= 2
    /\ \A k \in 1..Len(responses) : HasResults(responses[k])
    /\ Len(places) >= 3
    /\ \E a, b \in 1..Len(places) : a < b /\ places[a] = places[b]

\* C4: a response without results is the last one: no request follows it,
\* its cursor is ignored, one error is logged and the result is exactly what
\* the earlier pages gave (empty when it was the first page).
C4_StopsAtMissingResults ==
    \A k \in 1..Len(responses) :
        ~HasResults(responses[k]) =>
            /\ k = Len(responses)
            /\ Len(requests) = k
            /\ pc = "fetch_returned"
            /\ errors = 1
            /\ places = PagesConcat(responses, k - 1)

\* an error payload with a cursor arrived after a page with entries
C4_Witness ==
    /\ pc = "fetch_returned"
    /\ Len(responses) >= 2
    /\ ~HasResults(responses[Len(responses)])
    /\ Truthy(Get(responses[Len(responses)], "next_page_token"))
    /\ places # <<>>

HasCursor(d) == HasResults(d) /\ Truthy(Get(d, "next_page_token"))

\* the requests sent so far follow the cursors received so far
CursorsFollowed ==
    /\ Len(requests) >= 1 => requests[1].pagetoken = None
    /\ \A k \in 1..Len(responses) :
           HasCursor(responses[k]) =>
               IF k < Len(requests)
               THEN /\ requests[k + 1].pagetoken = responses[k]["next_page_token"]
                    /\ requests[k + 1].waited >= PAGE_DELAY
               ELSE \/ pc = "fetch_sleep"
                    \/ pc = "fetch_request" /\ waited >= PAGE_DELAY

\* the last response had results and a cursor and no request followed it yet
CursorPending ==
    /\ responses # <<>>
    /\ HasCursor(responses[Len(responses)])
    /\ Len(requests) = Len(responses)

\* C5: after a response with results and a cursor a next request is issued,
\* its pagetoken is that cursor, at least PAGE_DELAY seconds were waited in
\* between; the first request has no pagetoken.
C5_CursorFollowedAfterDelay ==
    /\ []CursorsFollowed
    /\ CursorPending ~> ~CursorPending

\* the third request was sent with the second page's cursor, not the first's
C5_Witness ==
    /\ Len(requests) >= 3
    /\ HasCursor(responses[1]) /\ HasCursor(responses[2])
    /\ responses[1]["next_page_token"] # responses[2]["next_page_token"]
    /\ requests[3].pagetoken = responses[2]["next_page_token"]

\* C13: fetch_places has no page bound of its own: it returns exactly when a
\* response has no cursor or no results, after one request per response; while
\* every response has results and a cursor it goes on.
C13_StopsOnlyWhenProviderStops ==
    /\ pc = "fetch_returned" <=>
           (responses # <<>> /\ ~HasCursor(responses[Len(responses)]))
    /\ pc = "fetch_returned" => Len(requests) = Len(responses)
    /\ \A k \in 1..(Len(responses) - 1) : HasCursor(responses[k])
    /\ (responses # <<>> /\ HasCursor(responses[Len(responses)])) =>
           pc \in {"fetch_sleep", "fetch_request", "raised"}

\* three pages were granted and fetch_places asked for each of them
C13_Witness ==
    /\ pc = "fetch_returned"
    /\ Len(requests) >= 3
    /\ Len(responses) = Len(requests)
    /\ HasResults(responses[Len(responses)])

\* the responses that lack the results field
WithoutResults == {k \in 1..Len(responses) : ~HasResults(responses[k])}

\* C17: an error is logged exactly for the responses without a results field;
\* a response with results is a normal page whatever its status: its entries
\* are appended, its cursor is followed, nothing is logged, so a failure
\* payload with an empty results array ends the collection as a success.
C17_FailureOnlyWithoutResults ==
    /\ errors = Cardinality(WithoutResults)
    /\ places = PagesConcat(responses, Len(responses) - Cardinality(WithoutResults))
    /\ \A k \in 1..Len(responses) :
           HasCursor(responses[k]) =>
               IF k < Len(requests)
               THEN requests[k + 1].pagetoken = responses[k]["next_page_token"]
               ELSE pc \in {"fetch_sleep", "fetch_request"}
    /\ (pc = "fetch_returned" /\ HasResults(responses[Len(responses)])) => errors = 0

\* a page with a failure status was followed, a failure payload with an empty
\* results array ended the collection, and no error was logged
C17_Witness ==
    /\ pc = "fetch_returned"
    /\ Len(responses) >= 2
    /\ responses[1]["status"] # "OK"
    /\ HasCursor(responses[1])
    /\ responses[1]["results"] # <<>>
    /\ responses[Len(responses)] = [results |-> <<>>, status |-> "REQUEST_DENIED"]
    /\ places # <<>>
    /\ errors = 0

(***************************************************************************)
(* Properties of the run                                                   *)
(***************************************************************************)
\* the place ids of a result set, in its order
PlaceIds(ps) == [k \in 1..Len(ps) |-> ps[k]["place_id"]]

\* C8: once scraping has started, the run ends normally after scrape_reviews
\* was invoked once for every place, in the order of the search result.
C8_EveryPlaceScraped ==
    (pc = "exited" /\ Len(calls) >= 1) =>
        /\ calls = PlaceIds(places)
        /\ exitCode = 0

\* C10: status 1 without a credential or without a place, status 0 when the
\* user declines or when scraping runs to completion; no session is launched
\* in the first three cases.
C10_ExitCodes ==
    /\ ~Truthy(API_KEY) => launched = 0 /\ requests = <<>>
    /\ (pc = "fetch_returned" /\ places = <<>>) => launched = 0
    /\ pc = "exited" =>
          /\ ~Truthy(API_KEY) => exitCode = 1
          /\ (Truthy(API_KEY) /\ places = <<>>) => (exitCode = 1 /\ launched = 0)
          /\ (displayed /\ ~args_yes /\ confirm # <<"y">>) =>
                 (exitCode = 0 /\ launched = 0)
          /\ (/\ places # <<>>
              /\ Len(calls) = Len(places)
              /\ launched = Len(places)
              /\ quits = Len(places)) => exitCode = 0

\* the search answered and gave no place: the run ended with status 1
C10_Witness ==
    /\ pc = "exited"
    /\ Truthy(API_KEY)
    /\ responses # <<>>
    /\ places = <<>>
    /\ exitCode = 1
    /\ launched = 0

\* fetch_places is collecting pages
Fetching == pc \in {"fetch_enter", "fetch_request", "fetch_sleep", "fetch_returned"}

\* C11: at most one session is alive and at most one request is outstanding:
\* a session is launched only when every earlier one was terminated, and none
\* exists while fetch_places collects pages.
C11_OneSessionOneRequest ==
    /\ quits <= launched
    /\ launched <= quits + 1
    /\ pc = "scrape_enter" => launched = quits
    /\ Fetching => launched = 0
    /\ Len(responses) <= Len(requests)
    /\ Len(requests) <= Len(responses) + 1

\* the session of the second place is alive, the first one was terminated
C11_Witness ==
    /\ pc = "scrape_get"
    /\ driver = "live"
    /\ launched = 2
    /\ quits = 1

\* C12: the table has one row per place, in the order of the result set, and
\* the row of the place (Test Hospital, 4.5, test123, 40.7128, -74.0060)
\* shows exactly these five texts.
C12_RowsVerbatim ==
    displayed =>
        /\ Len(table) = Len(places)
        /\ \A k \in 1..Len(places) :
               /\ table[k][3] = places[k]["place_id"]
               /\ places[k]["place_id"] = "test123" =>
                      /\ table[k][1] = "Test Hospital"
                      /\ table[k][2] = <<"4", ".", "5">>
                      /\ table[k][4] = <<"4", "0", ".", "7", "1", "2", "8">>
                      /\ table[k][5] = <<"-", "7", "4", ".", "0", "0", "6", "0">>

\* the user agreed to the scraping, or --yes was given
Authorised == args_yes \/ confirm = <<"y">>

\* C14: after a provider error on a later page the run goes on with the places
\* accumulated so far: they are shown and, once authorised, every one of them
\* is scraped (scrape_reviews is called for it and returns).
C14_PartialResultScraped ==
    (pc = "exited" /\ errors >= 1 /\ places # <<>>) =>
        /\ displayed
        /\ Len(table) = Len(places)
        /\ Authorised =>
               /\ calls = PlaceIds(places)
               /\ quits = Len(places)

\* the part of C14 that does not depend on scrape_reviews returning
PartialResultUsed ==
    (/\ errors >= 1
     /\ places # <<>>
     /\ pc \notin {"fetch_request", "fetch_sleep", "fetch_returned"}) =>
        /\ displayed
        /\ Len(table) = Len(places)
        /\ (pc = "exited" /\ Authorised) => (calls # <<>> /\ calls[1] = places[1]["place_id"])
        /\ (pc = "exited" /\ exitCode = 1) => calls # <<>>

\* the typed lines that are "y" once trimmed and lower-cased
YesAnswers == { <<"y">>, <<"Y">>, <<" ", "Y", " ">>, <<" ", "y", "\n">> }

\* C16: scrape_reviews is invoked, and a session launched, only with --yes or
\* after an answer that is "y" once trimmed and lower-cased, and only after
\* the table was shown; any other answer ends the run with status 0 and no
\* invocation.
C16_ScrapeOnlyWhenAuthorised ==
    /\ launched > 0 => calls # <<>>
    /\ calls # <<>> =>
          /\ args_yes \/ answer \in YesAnswers
          /\ displayed
          /\ Len(table) = Len(places)
    /\ (~args_yes /\ answer \in YesAnswers) => pc # "main_confirm"
    /\ (pc = "exited" /\ displayed /\ ~args_yes) =>
          IF answer \in YesAnswers
          THEN calls # <<>>
          ELSE exitCode = 0 /\ calls = <<>> /\ launched = 0

\* a capital Y between blanks was typed and the first place is being scraped
C16_Witness ==
    /\ ~args_yes
    /\ answer = <<" ", "Y", " ">>
    /\ pc = "scrape_get"
    /\ launched = 1
    /\ displayed

====
